---- MODULE Spec2Model ----
(***************************************************************************)
(* A model of the server build step of the kit package:                    *)
(*   packages/kit/src/exports/vite/build/build_server.js  (build_server,   *)
(*   get_methods, server_template) and                                     *)
(*   packages/kit/src/runtime/server/index.js             (Server.init).   *)
(*                                                                         *)
(* Four specifications share the module:                                   *)
(*   SpecInline  - the stylesheet-inlining pass, one asset per step        *)
(*   SpecBuild   - build_server from the inlining pass to its return       *)
(*   SpecMethods - get_methods applied to bounded inputs                   *)
(*   SpecServer  - interleaved Server.init calls on one Server instance    *)
(*                                                                         *)
(* Representation of values:                                               *)
(*   an asset path is a record [stem, ext] (ext is the text from the last  *)
(*   dot on), so that endsWith('.css') is a test the model performs;       *)
(*   a string whose only observed property is its length and identity is   *)
(*   a sequence of characters; an optional value is a sequence of length   *)
(*   0 or 1.                                                               *)
(***************************************************************************)
EXTENDS Integers, Sequences, FiniteSets, TLC

VARIABLES
    pc,                 \* position of build_server: "inline", "nodes", "done", "aborted"
    threshold,          \* config.kit.inlineStyleThreshold
    considered,         \* client.assets consumed so far, each with the slot its callback assigned
    stylesheet_lookup,  \* the Map of line 177: asset fileName -> slot
    stylesheet_files,   \* <output_dir>/server/stylesheets/<slot>.js: slot -> content
    node_files,         \* <output_dir>/server/nodes/<i>.js, in order of emission
    attempted,          \* the node the forEach callback of line 191 was last entered with
    error,              \* the error build_server was rejected with, if any
    result,             \* the value build_server resolved with, if any
    sep,                \* the platform's path separator
    exports_lookup,     \* get_methods' lookup: source file -> export names of its chunk
    routes,             \* manifest_data.routes consumed so far by get_methods
    methods,            \* get_methods' table: source file -> HTTP method names
    hooks,              \* this.options.hooks of the Server instance
    hooks_module,       \* what the generated get_hooks() yields
    private_env,        \* last argument of set_private_env
    public_env,         \* last argument of set_public_env
    calls,              \* the Server.init invocations and where each stands
    get_hooks_calls,    \* number of get_hooks() invocations
    hooks_assignments   \* number of assignments to this.options.hooks

vars == << pc, threshold, considered, stylesheet_lookup, stylesheet_files,
           node_files, attempted, error, result, sep, exports_lookup, routes, methods,
           hooks, hooks_module, private_env, public_env, calls,
           get_hooks_calls, hooks_assignments >>

build_vars == << pc, threshold, considered, stylesheet_lookup, stylesheet_files,
                 node_files, attempted, error, result >>
methods_vars == << sep, exports_lookup, routes, methods >>
server_vars == << hooks, hooks_module, private_env, public_env, calls,
                  get_hooks_calls, hooks_assignments >>

-----------------------------------------------------------------------------
(* Bounds *)

MaxThreshold == 2       \* config.kit.inlineStyleThreshold ranges over 0..MaxThreshold
MaxAssets == 3          \* length of client.assets in the inlining pass
MaxNodes == 2           \* length of manifest_data.nodes
MaxRoutes == 2          \* length of manifest_data.routes
MaxCalls == 3           \* number of Server.init invocations

\* Sizes reach one past the largest threshold, so T-1, T and T+1 all occur.
MaxSize == MaxThreshold + 1

-----------------------------------------------------------------------------
(* Generic helpers *)

Range(f) == { f[x] : x \in DOMAIN f }

NoDuplicates(seq) == \A i, j \in 1..Len(seq) : seq[i] = seq[j] => i = j

\* f with key k bound to v, whether or not k was a key (Map.set, obj[k] = v)
Put(f, k, v) == [ x \in DOMAIN f \cup {k} |-> IF x = k THEN v ELSE f[x] ]

EmptyMap == [ x \in {} |-> 0 ]

Path(stem, ext) == [ stem |-> stem, ext |-> ext ]

\* String.prototype.endsWith, on an asset path, for a suffix that starts at a dot
EndsWith(fileName, suffix) == fileName.ext = suffix

\* a string of n characters
Text(n) == [ i \in 1..n |-> "x" ]

-----------------------------------------------------------------------------
(* The stylesheet-inlining pass, build_server.js lines 177-189 *)

AssetNames == { Path("a", ".css"), Path("b", ".css"), Path("c", ".js") }

\* rollup OutputAsset: { fileName, source }
Assets == [ fileName : AssetNames, source : { Text(n) : n \in 0..MaxSize } ]

\* line 181 with the comparison a slip would write
InlinableInclusive(asset, limit) == Len(asset.source) <= limit

\* line 181: asset.source.length < config.kit.inlineStyleThreshold
Inlinable(asset, limit) == Len(asset.source) < limit

\* line 182: const index = stylesheet_lookup.size
NextSlot(lookup) == Cardinality(DOMAIN lookup)

\* lines 180-188, the body of the forEach callback: the new table, the new
\* files and the slot assigned (none when the asset is skipped).
\* The written module  `// <fileName>\nexport default <s(source)>;`  is kept as
\* its comment and the value of its default export.
ConsiderAsset(lookup, files, asset, limit) ==
    IF EndsWith(asset.fileName, ".css") /\ Inlinable(asset, limit)
    THEN LET index == NextSlot(lookup)
         IN [ lookup |-> Put(lookup, asset.fileName, index),
              files  |-> Put(files, index,
                             [ comment |-> asset.fileName, default |-> asset.source ]),
              slot   |-> << index >> ]
    ELSE [ lookup |-> lookup, files |-> files, slot |-> << >> ]

\* lines 179-189: client.assets.forEach(...), from an empty table
RECURSIVE InlinePass(_, _)
InlinePass(assets, limit) ==
    IF assets = << >>
    THEN [ lookup |-> EmptyMap, files |-> EmptyMap, log |-> << >> ]
    ELSE LET before == InlinePass(SubSeq(assets, 1, Len(assets) - 1), limit)
             asset  == assets[Len(assets)]
             step   == ConsiderAsset(before.lookup, before.files, asset, limit)
         IN [ lookup |-> step.lookup,
              files  |-> step.files,
              log    |-> Append(before.log, [ asset |-> asset, slot |-> step.slot ]) ]

-----------------------------------------------------------------------------
(* get_methods, build_server.js lines 278-304 *)

\* A file path is its separator and its segments. The route manifest holds
\* posix paths relative to cwd; a chunk's facadeModuleId is absolute and in
\* the platform's form.
Posix(segs) == [ sep |-> "/", segs |-> segs ]

cwd == << "app" >>

FileA == << "src", "routes", "a", "+server.js" >>
FileB == << "src", "routes", "b", "+page.server.js" >>
RouteFiles == { Posix(FileA), Posix(FileB) }

\* chunk.facadeModuleId: null, a route file under cwd, or a module outside cwd
FacadeModuleIds == { << >> } \cup { << cwd \o f >> : f \in { FileA, FileB } }
                             \cup { << << "lib", "index.js" >> >> }

\* chunk.exports, in the compiler's order
ExportLists == { << >>,
                 << "GET", "POST", "config", "default" >>,
                 << "default", "HEAD", "load", "GET" >>,
                 << "OPTIONS", "PATCH", "DELETE", "PUT" >> }

\* rollup OutputChunk: { facadeModuleId, exports }
Chunks == [ facadeModuleId : FacadeModuleIds, exports : ExportLists ]

\* manifest_data.routes[i]: endpoint is null or { file }; leaf is null or a
\* node, whose server is null or a file
Routes == [ endpoint : { << >> } \cup { << [ file |-> f ] >> : f \in RouteFiles },
            leaf : { << >>, << [ server |-> << >> ] >> }
                   \cup { << [ server |-> << f >> ] >> : f \in RouteFiles } ]

RECURSIVE CommonPrefix(_, _)
CommonPrefix(a, b) ==
    IF a # << >> /\ b # << >> /\ Head(a) = Head(b)
    THEN 1 + CommonPrefix(Tail(a), Tail(b))
    ELSE 0

\* path.relative(from, to) for absolute paths, in the platform's form
Relative(from, to) ==
    LET n == CommonPrefix(from, to)
    IN [ sep  |-> sep,
         segs |-> [ i \in 1..(Len(from) - n) |-> ".." ] \o SubSeq(to, n + 1, Len(to)) ]

\* posixify (utils/filesystem.js): every backslash becomes a slash
posixify(file) == [ file EXCEPT !.sep = "/" ]

\* the names is_http_method (build/utils.js) accepts
http_methods == { "GET", "POST", "PUT", "PATCH", "DELETE", "OPTIONS", "HEAD" }

is_http_method(name) == name \in http_methods

\* Array.prototype.filter(is_http_method)
RECURSIVE FilterMethods(_)
FilterMethods(names) ==
    IF names = << >> THEN << >>
    ELSE IF is_http_method(Head(names))
         THEN << Head(names) >> \o FilterMethods(Tail(names))
         ELSE FilterMethods(Tail(names))

\* lines 282-284, the body of output.forEach
LookupChunk(lookup, chunk) ==
    IF chunk.facadeModuleId = << >> THEN lookup
    ELSE Put(lookup, posixify(Relative(cwd, chunk.facadeModuleId[1])), chunk.exports)

\* lines 291-293 and 297-299 with the export list recorded as it is
RecordFileUnfiltered(table, lookup, file) ==
    IF file \in DOMAIN lookup THEN Put(table, file, lookup[file]) ELSE table

\* lines 291-293 and 297-299: if (lookup[file]) methods[file] = lookup[file].filter(...)
\* (an export list is an array, which is truthy even when empty)
RecordFile(table, lookup, file) ==
    IF file \in DOMAIN lookup THEN Put(table, file, FilterMethods(lookup[file])) ELSE table

\* lines 290-300 with the second test chained to the first by an else
RouteMethodsElse(table, lookup, route) ==
    IF route.endpoint # << >>
    THEN RecordFile(table, lookup, route.endpoint[1].file)
    ELSE IF route.leaf # << >> /\ route.leaf[1].server # << >>
         THEN RecordFile(table, lookup, route.leaf[1].server[1])
         ELSE table

\* lines 290-300, the body of manifest_data.routes.forEach
RouteMethods(table, lookup, route) ==
    LET after_endpoint ==
            IF route.endpoint # << >>
            THEN RecordFile(table, lookup, route.endpoint[1].file)
            ELSE table
    IN IF route.leaf # << >> /\ route.leaf[1].server # << >>
       THEN RecordFile(after_endpoint, lookup, route.leaf[1].server[1])
       ELSE after_endpoint

RECURSIVE BuildLookup(_)
BuildLookup(chunks) ==
    IF chunks = << >> THEN EmptyMap
    ELSE LookupChunk(BuildLookup(SubSeq(chunks, 1, Len(chunks) - 1)), chunks[Len(chunks)])

RECURSIVE BuildMethods(_, _)
BuildMethods(lookup, rs) ==
    IF rs = << >> THEN EmptyMap
    ELSE RouteMethods(BuildMethods(lookup, SubSeq(rs, 1, Len(rs) - 1)), lookup, rs[Len(rs)])

\* lines 278-304 as one call
get_methods(chunks, rs) == BuildMethods(BuildLookup(chunks), rs)

-----------------------------------------------------------------------------
(* The artifact graphs and the file system that node emission reads *)

PageCss == Path("page", ".css")
SharedCss == Path("shared", ".css")
LazyCss == Path("lazy", ".css")
Font == Path("font", ".woff2")
Logo == Path("logo", ".png")

\* client.vite_manifest: source module -> { file, imports, dynamicImports, css, assets }.
\* page.svelte and page.js share b.js; b.js and c.js share d.js (a diamond);
\* d.js imports b.js back (a cycle); lazy.js is reached by a deferred edge only.
ClientManifest ==
    [ m \in { "page.svelte", "page.js", "b.js", "c.js", "d.js", "lazy.js" } |->
        CASE m = "page.svelte" ->
                [ file |-> "_app/page.svelte.js", imports |-> << "b.js", "c.js" >>,
                  dynamicImports |-> << "lazy.js" >>, css |-> << PageCss >>, assets |-> << >> ]
          [] m = "page.js" ->
                [ file |-> "_app/page.js", imports |-> << "b.js" >>,
                  dynamicImports |-> << >>, css |-> << >>, assets |-> << >> ]
          [] m = "b.js" ->
                [ file |-> "_app/b.js", imports |-> << "d.js" >>,
                  dynamicImports |-> << >>, css |-> << >>, assets |-> << Logo >> ]
          [] m = "c.js" ->
                [ file |-> "_app/c.js", imports |-> << "d.js" >>,
                  dynamicImports |-> << >>, css |-> << >>, assets |-> << >> ]
          [] m = "d.js" ->
                [ file |-> "_app/d.js", imports |-> << "b.js" >>,
                  dynamicImports |-> << >>, css |-> << SharedCss >>, assets |-> << Font >> ]
          [] m = "lazy.js" ->
                [ file |-> "_app/lazy.js", imports |-> << >>,
                  dynamicImports |-> << >>, css |-> << LazyCss >>, assets |-> << >> ] ]

\* vite_manifest of the server build (lines 170-172): source module -> { file }
ServerManifest ==
    [ m \in { "page.svelte", "page.js", "page.server.js" } |->
        CASE m = "page.svelte"    -> [ file |-> "entries/pages/_page.svelte.js" ]
          [] m = "page.js"        -> [ file |-> "entries/pages/_page.js" ]
          [] m = "page.server.js" -> [ file |-> "entries/pages/_page.server.js" ] ]

\* fs.realpathSync: link.* are symlinks to page.*; every other path is its own
\* physical file (ghost.js is on no disk and in no graph)
Realpath(file) ==
    CASE file = "link.svelte"    -> "page.svelte"
      [] file = "link.js"        -> "page.js"
      [] file = "link.server.js" -> "page.server.js"
      [] OTHER                   -> file

\* the files a node may name for each role (null is << >>)
ComponentFiles == { << >>, << "page.svelte" >>, << "link.svelte" >>, << "ghost.js" >> }
UniversalFiles == { << >>, << "page.js" >>, << "link.js" >>, << "ghost.js" >> }
ServerFiles == { << >>, << "page.server.js" >>, << "link.server.js" >>, << "ghost.js" >> }

\* manifest_data.nodes[i]
Nodes == [ component : ComponentFiles, universal : UniversalFiles, server : ServerFiles ]

MissingManifestEntry(file) == [ name |-> "MissingManifestEntry", path |-> << file >> ]

\* reading a property of undefined: the message names the property, not the key
TypeError == [ name |-> "TypeError", path |-> << >> ]

\* resolve_symlinks (build/utils.js): the graph entry recorded for the physical
\* file of `file`, or the missing-entry failure naming `file`
resolve_symlinks(manifest, file) ==
    LET hits == { k \in DOMAIN manifest : Realpath(k) = Realpath(file) }
    IN IF hits = {}
       THEN [ err |-> << MissingManifestEntry(file) >> ]
       ELSE LET k == CHOOSE k \in hits : TRUE
            IN [ err |-> << >>, file |-> k, chunk |-> manifest[k] ]

AppendNew(seq, x) == IF x \in Range(seq) THEN seq ELSE Append(seq, x)

RECURSIVE AppendAllNew(_, _)
AppendAllNew(seq, xs) ==
    IF xs = << >> THEN seq ELSE AppendAllNew(AppendNew(seq, Head(xs)), Tail(xs))

RECURSIVE SelectFonts(_)
SelectFonts(assets) ==
    IF assets = << >> THEN << >>
    ELSE IF Head(assets).ext \in { ".woff", ".woff2", ".ttf", ".otf" }
         THEN << Head(assets) >> \o SelectFonts(Tail(assets))
         ELSE SelectFonts(Tail(assets))

NoDeps == [ seen |-> {}, imports |-> << >>, stylesheets |-> << >>, fonts |-> << >>,
            err |-> << >> ]

\* find_deps' traversal (build/utils.js): depth first over the static import
\* edges, each physical module visited once, contributions in visiting order;
\* the entry's own compiled file is not among the imported chunks
RECURSIVE Traverse(_, _, _, _)
RECURSIVE TraverseAll(_, _, _, _)
RECURSIVE Visit(_, _, _, _)
Traverse(manifest, entry, current, acc) ==
    IF acc.err # << >> THEN acc
    ELSE Visit(manifest, entry, resolve_symlinks(manifest, current), acc)

\* the visit of the module that `current` resolved to
Visit(manifest, entry, r, acc) ==
    IF r.err # << >> THEN [ acc EXCEPT !.err = r.err ]
    ELSE IF r.file \in acc.seen THEN acc
    ELSE TraverseAll(manifest, entry, r.chunk.imports,
            [ seen        |-> acc.seen \cup { r.file },
              imports     |-> IF r.file = entry THEN acc.imports
                              ELSE AppendNew(acc.imports, r.chunk.file),
              stylesheets |-> AppendAllNew(acc.stylesheets, r.chunk.css),
              fonts       |-> AppendAllNew(acc.fonts, SelectFonts(r.chunk.assets)),
              err         |-> << >> ])

TraverseAll(manifest, entry, files, acc) ==
    IF files = << >> THEN acc
    ELSE TraverseAll(manifest, entry, Tail(files), Traverse(manifest, entry, Head(files), acc))

\* what find_deps returns for an entry that resolved to r, after the traversal acc
DepsOf(r, acc) ==
    IF acc.err # << >> THEN [ err |-> acc.err ]
    ELSE [ err |-> << >>, file |-> r.chunk.file, imports |-> acc.imports,
           stylesheets |-> acc.stylesheets, fonts |-> acc.fonts ]

DepsFrom(manifest, r) ==
    IF r.err # << >> THEN [ err |-> r.err ]
    ELSE DepsOf(r, Traverse(manifest, r.file, r.file, NoDeps))

\* find_deps (build/utils.js): { file, imports, stylesheets, fonts } of an entry.
\* build_server passes a third argument, add_dynamic_css = true; it concerns the
\* deferred edges (dynamicImports), which the traversal does not follow.
find_deps(manifest, entry) == DepsFrom(manifest, resolve_symlinks(manifest, entry))

-----------------------------------------------------------------------------
(* Node emission, build_server.js lines 191-264 *)

\* manifest[key], undefined (<< >>) when key is no property of the manifest
Index(manifest, key) == IF key \in DOMAIN manifest THEN << manifest[key] >> ELSE << >>

NoPart == [ err |-> << >>, imported |-> << >>, stylesheets |-> << >>, fonts |-> << >>,
            ref |-> << >>, file |-> << >> ]

\* lines 210-221 given what find_deps and resolve_symlinks returned
ComponentEntry(entry, r) ==
    IF entry.err # << >> THEN [ err |-> entry.err ]
    ELSE IF r.err # << >> THEN [ err |-> r.err ]
    ELSE [ err |-> << >>, imported |-> entry.imports,
           stylesheets |-> entry.stylesheets, fonts |-> entry.fonts,
           ref |-> << r.chunk.file >>, file |-> << entry.file >> ]

\* lines 209-222: if (node.component) { ... }
ComponentPart(client_manifest, vite_manifest, component) ==
    IF component = << >> THEN NoPart
    ELSE ComponentEntry(find_deps(client_manifest, component[1]),
                        resolve_symlinks(vite_manifest, component[1]))

\* lines 225-232 given what find_deps returned and vite_manifest[node.universal]
UniversalEntry(entry, chunk) ==
    IF entry.err # << >> THEN [ err |-> entry.err ]
    ELSE IF chunk = << >> THEN [ err |-> << TypeError >> ]
    ELSE [ err |-> << >>, imported |-> entry.imports,
           stylesheets |-> entry.stylesheets, fonts |-> entry.fonts,
           ref |-> << chunk[1].file >>, file |-> << >> ]

\* lines 224-233: if (node.universal) { ... }
UniversalPart(client_manifest, vite_manifest, universal) ==
    IF universal = << >> THEN NoPart
    ELSE UniversalEntry(find_deps(client_manifest, universal[1]),
                        Index(vite_manifest, universal[1]))

\* line 236 given vite_manifest[node.server]
ServerEntry(chunk) ==
    IF chunk = << >> THEN [ err |-> << TypeError >> ]
    ELSE [ NoPart EXCEPT !.ref = << chunk[1].file >> ]

\* lines 235-238: if (node.server) { ... }
ServerPart(vite_manifest, server) ==
    IF server = << >> THEN NoPart
    ELSE ServerEntry(Index(vite_manifest, server[1]))

\* an import statement: the bound name and the module it is imported from
ImportOf(role, from) == [ name |-> << role >>, from |-> from ]

\* line 253: import stylesheet_<index> from '../stylesheets/<index>.js'
StylesheetImport(index) ==
    [ name |-> << "stylesheet", index >>, from |-> << "stylesheets", index >> ]

\* lines 249-256 with every stylesheet bound, to slot 0 when it has none
InlineStylesUnguarded(stylesheets, lookup) ==
    [ i \in 1..Len(stylesheets) |->
        LET index == IF stylesheets[i] \in DOMAIN lookup THEN lookup[stylesheets[i]] ELSE 0
        IN [ import |-> StylesheetImport(index),
             style  |-> [ key |-> stylesheets[i], name |-> << "stylesheet", index >> ] ] ]

\* lines 249-256: for every accumulated stylesheet that has a slot, the import
\* of its slot's module and the accessor entry  <file>: stylesheet_<index>
RECURSIVE InlineStyles(_, _)
InlineStyles(stylesheets, lookup) ==
    IF stylesheets = << >> THEN << >>
    ELSE LET file == Head(stylesheets)
             rest == InlineStyles(Tail(stylesheets), lookup)
         IN IF file \in DOMAIN lookup
            THEN << [ import |-> StylesheetImport(lookup[file]),
                      style  |-> [ key |-> file, name |-> << "stylesheet", lookup[file] >> ] ] >>
                 \o rest
            ELSE rest

\* lines 240-263: the module written to nodes/<i>.js from what the three
\* roles accumulated; inline is what lines 249-256 made of the stylesheets
NodeModule(i, c, u, v, inline) ==
    [ index |-> i,
      import_statements |->
          (IF u.ref # << >> THEN << ImportOf("universal", u.ref) >> ELSE << >>)
          \o (IF v.ref # << >> THEN << ImportOf("server", v.ref) >> ELSE << >>)
          \o [ k \in 1..Len(inline) |-> inline[k].import ],
      component |-> c.ref,
      file |-> c.file,
      universal |-> u.ref,
      server |-> v.ref,
      imports |-> c.imported \o u.imported,
      stylesheets |-> c.stylesheets \o u.stylesheets,
      fonts |-> c.fonts \o u.fonts,
      inline_styles |->
          IF Len(inline) > 0
          THEN << [ k \in 1..Len(inline) |-> inline[k].style ] >>
          ELSE << >> ]

\* lines 209-263 given the three roles' parts: the first error thrown, in the
\* order the roles are handled, or the module
EmitParts(i, lookup, c, u, v) ==
    IF c.err # << >> THEN [ err |-> c.err ]
    ELSE IF u.err # << >> THEN [ err |-> u.err ]
    ELSE IF v.err # << >> THEN [ err |-> v.err ]
    ELSE [ err |-> << >>,
           module |-> NodeModule(i, c, u, v,
                                 InlineStyles(c.stylesheets \o u.stylesheets, lookup)) ]

\* lines 191-264, the body of manifest_data.nodes.forEach: the module written
\* to nodes/<i>.js, or the error thrown before it is written
EmitNode(i, node, lookup, client_manifest, vite_manifest) ==
    EmitParts(i, lookup,
              ComponentPart(client_manifest, vite_manifest, node.component),
              UniversalPart(client_manifest, vite_manifest, node.universal),
              ServerPart(vite_manifest, node.server))

-----------------------------------------------------------------------------
(* Server.init, runtime/server/index.js lines 18-44, and the generated
   get_hooks, build_server.js lines 77-79 *)

\* public_prefix of the generated server-internal module (build_server.js line 67)
public_prefix == << "P", "_" >>

EnvKeys == { << "P", "_", "A" >>, << "P" >>, << "S", "_", "K" >> }

\* the env argument of init: Record<string, string>
Envs == UNION { [ ks -> { "1", "2" } ] : ks \in SUBSET EnvKeys }

\* String.prototype.startsWith
StartsWith(k, prefix) ==
    Len(k) >= Len(prefix) /\ SubSeq(k, 1, Len(prefix)) = prefix

\* line 24: the entries whose key does not start with public_prefix
PrivateOf(env) == [ k \in { x \in DOMAIN env : ~StartsWith(x, public_prefix) } |-> env[k] ]

\* line 25: the entries whose key starts with public_prefix
PublicOf(env) == [ k \in { x \in DOMAIN env : StartsWith(x, public_prefix) } |-> env[k] ]

HookNames == { "handle", "handleError", "handleFetch" }

\* what get_hooks() resolves to: {} without a hooks file, else the namespace of
\* the hooks module, which exports any of the three hooks
HooksModules == UNION { [ names -> { "user" } ] : names \in SUBSET HookNames }

\* lines 33-42: module.<hook> || <the default of that hook>
HooksOf(module) ==
    [ h \in HookNames |-> IF h \in DOMAIN module THEN module[h] ELSE "default" ]

\* line 30: if (!this.options.hooks)
HooksUnset == hooks = << >>

\* lines 18-31: a call of init runs to its await, or to its end when the
\* hooks are already set
InitCall(env) ==
    /\ Len(calls) < MaxCalls
    /\ private_env' = PrivateOf(env)
    /\ public_env' = PublicOf(env)
    /\ IF HooksUnset
       THEN /\ get_hooks_calls' = get_hooks_calls + 1
            /\ calls' = Append(calls, "awaiting")
       ELSE /\ get_hooks_calls' = get_hooks_calls
            /\ calls' = Append(calls, "done")
    /\ UNCHANGED << hooks, hooks_module, hooks_assignments >>

\* lines 31-43: the awaited get_hooks() has resolved and the call continues
InitResume(i) ==
    /\ calls[i] = "awaiting"
    /\ hooks' = << HooksOf(hooks_module) >>
    /\ hooks_assignments' = hooks_assignments + 1
    /\ calls' = [ calls EXCEPT ![i] = "done" ]
    /\ UNCHANGED << hooks_module, private_env, public_env, get_hooks_calls >>

\* line 31: the import() of the hooks file has rejected and init throws
InitReject(i) ==
    /\ calls[i] = "awaiting"
    /\ hooks_module # EmptyMap
    /\ calls' = [ calls EXCEPT ![i] = "rejected" ]
    /\ UNCHANGED << hooks, hooks_module, private_env, public_env,
                    get_hooks_calls, hooks_assignments >>

-----------------------------------------------------------------------------
(* The parts of the state a specification does not move *)

BuildIdle ==
    /\ pc = "idle" /\ threshold = 0 /\ considered = << >>
    /\ stylesheet_lookup = EmptyMap /\ stylesheet_files = EmptyMap
    /\ node_files = << >> /\ attempted = << >> /\ error = << >> /\ result = << >>

MethodsIdle ==
    /\ sep = "/" /\ exports_lookup = EmptyMap /\ routes = << >> /\ methods = EmptyMap

ServerIdle ==
    /\ hooks = << >> /\ hooks_module = EmptyMap
    /\ private_env = EmptyMap /\ public_env = EmptyMap
    /\ calls = << >> /\ get_hooks_calls = 0 /\ hooks_assignments = 0

-----------------------------------------------------------------------------
(* SpecInline: the inlining pass, one asset of client.assets per step *)

InitInline ==
    /\ pc = "inline"
    /\ threshold \in 0..MaxThreshold
    /\ considered = << >>
    /\ stylesheet_lookup = EmptyMap
    /\ stylesheet_files = EmptyMap
    /\ node_files = << >> /\ attempted = << >> /\ error = << >> /\ result = << >>
    /\ MethodsIdle /\ ServerIdle

Consider(asset) ==
    /\ pc = "inline"
    /\ Len(considered) < MaxAssets
    /\ LET step == ConsiderAsset(stylesheet_lookup, stylesheet_files, asset, threshold)
       IN /\ stylesheet_lookup' = step.lookup
          /\ stylesheet_files' = step.files
          /\ considered' = Append(considered, [ asset |-> asset, slot |-> step.slot ])
    /\ UNCHANGED << pc, threshold, node_files, attempted, error, result >>
    /\ UNCHANGED methods_vars /\ UNCHANGED server_vars

NextInline == \E asset \in Assets : Consider(asset)

SpecInline == InitInline /\ [][NextInline]_vars

-----------------------------------------------------------------------------
(* SpecBuild: build_server from line 177 to its return *)

\* client.assets of the build whose graph is ClientManifest: the two eager
\* stylesheets, of any size, and a font
ClientAssetLists ==
    { << [ fileName |-> PageCss, source |-> Text(n1) ],
         [ fileName |-> Font, source |-> Text(0) ],
         [ fileName |-> SharedCss, source |-> Text(n2) ] >> : n1, n2 \in 0..MaxSize }

\* the chunks and routes get_methods is given on return
BuildChunks ==
    << [ facadeModuleId |-> << cwd \o FileA >>,
         exports |-> << "GET", "POST", "config", "default" >> ] >>

BuildRoutes ==
    << [ endpoint |-> << [ file |-> Posix(FileA) ] >>, leaf |-> << >> ] >>

InitBuild == InitInline

\* lines 177-189 in one step
InlineStylesheets ==
    /\ pc = "inline"
    /\ \E assets \in ClientAssetLists :
         LET pass == InlinePass(assets, threshold)
         IN /\ stylesheet_lookup' = pass.lookup
            /\ stylesheet_files' = pass.files
            /\ considered' = pass.log
    /\ pc' = "nodes"
    /\ UNCHANGED << threshold, node_files, attempted, error, result >>
    /\ UNCHANGED methods_vars /\ UNCHANGED server_vars

\* the forEach callback of line 191 applied to the next node of this build
Emitted(node) ==
    EmitNode(Len(node_files), node, stylesheet_lookup, ClientManifest, ServerManifest)

\* lines 191-264 for the next node, when nothing throws
EmitNodeWritten(node) ==
    /\ pc = "nodes"
    /\ Len(node_files) < MaxNodes
    /\ Emitted(node).err = << >>
    /\ node_files' = Append(node_files, Emitted(node).module)
    /\ attempted' = << node >>
    /\ UNCHANGED << pc, threshold, considered, stylesheet_lookup, stylesheet_files,
                    error, result >>
    /\ UNCHANGED methods_vars /\ UNCHANGED server_vars

\* lines 191-264 for the next node, when its emission throws: nothing
\* catches it, and the promise build_server returned rejects with it
EmitNodeThrows(node) ==
    /\ pc = "nodes"
    /\ Len(node_files) < MaxNodes
    /\ Emitted(node).err # << >>
    /\ error' = Emitted(node).err
    /\ attempted' = << node >>
    /\ pc' = "aborted"
    /\ UNCHANGED << threshold, considered, stylesheet_lookup, stylesheet_files,
                    node_files, result >>
    /\ UNCHANGED methods_vars /\ UNCHANGED server_vars

\* lines 266-270, after the last node
Return ==
    /\ pc = "nodes"
    /\ pc' = "done"
    /\ result' = << [ chunks |-> BuildChunks, vite_manifest |-> ServerManifest,
                      methods |-> get_methods(BuildChunks, BuildRoutes) ] >>
    /\ UNCHANGED << threshold, considered, stylesheet_lookup, stylesheet_files,
                    node_files, attempted, error >>
    /\ UNCHANGED methods_vars /\ UNCHANGED server_vars

NextBuild ==
    \/ InlineStylesheets
    \/ \E node \in Nodes : EmitNodeWritten(node)
    \/ \E node \in Nodes : EmitNodeThrows(node)
    \/ Return

SpecBuild == InitBuild /\ [][NextBuild]_vars

-----------------------------------------------------------------------------
(* SpecMethods: get_methods, one chunk and one route per step *)

InitMethods ==
    /\ BuildIdle /\ ServerIdle
    /\ sep \in { "/", "\\" }
    /\ exports_lookup = EmptyMap
    /\ routes = << >>
    /\ methods = EmptyMap

\* a turn of output.forEach (lines 281-285); pc "idle" is the first loop
AddChunk(chunk) ==
    /\ pc = "idle"
    /\ exports_lookup' = LookupChunk(exports_lookup, chunk)
    /\ UNCHANGED << sep, routes, methods >>
    /\ UNCHANGED build_vars /\ UNCHANGED server_vars

\* output.forEach is over and manifest_data.routes.forEach begins (line 289)
StartRoutes ==
    /\ pc = "idle"
    /\ pc' = "routes"
    /\ UNCHANGED << threshold, considered, stylesheet_lookup, stylesheet_files,
                    node_files, attempted, error, result >>
    /\ UNCHANGED methods_vars /\ UNCHANGED server_vars

\* a turn of manifest_data.routes.forEach (lines 289-301)
AddRoute(route) ==
    /\ pc = "routes"
    /\ Len(routes) < MaxRoutes
    /\ methods' = RouteMethods(methods, exports_lookup, route)
    /\ routes' = Append(routes, route)
    /\ UNCHANGED << sep, exports_lookup >>
    /\ UNCHANGED build_vars /\ UNCHANGED server_vars

\* line 303: return methods
ReturnMethods ==
    /\ pc = "routes"
    /\ pc' = "returned"
    /\ UNCHANGED << threshold, considered, stylesheet_lookup, stylesheet_files,
                    node_files, attempted, error, result >>
    /\ UNCHANGED methods_vars /\ UNCHANGED server_vars

NextMethods ==
    \/ \E chunk \in Chunks : AddChunk(chunk)
    \/ StartRoutes
    \/ \E route \in Routes : AddRoute(route)
    \/ ReturnMethods

SpecMethods == InitMethods /\ [][NextMethods]_vars

-----------------------------------------------------------------------------
(* SpecServer: calls of init on one Server instance, interleaved at the await *)

InitServer ==
    /\ BuildIdle /\ MethodsIdle
    /\ hooks = << >>
    /\ hooks_module \in HooksModules
    /\ private_env = EmptyMap /\ public_env = EmptyMap
    /\ calls = << >> /\ get_hooks_calls = 0 /\ hooks_assignments = 0

NextServer ==
    \/ \E env \in Envs :
         InitCall(env) /\ UNCHANGED build_vars /\ UNCHANGED methods_vars
    \/ \E i \in 1..Len(calls) :
         InitResume(i) /\ UNCHANGED build_vars /\ UNCHANGED methods_vars
    \/ \E i \in 1..Len(calls) :
         InitReject(i) /\ UNCHANGED build_vars /\ UNCHANGED methods_vars

SpecServer == InitServer /\ [][NextServer]_vars

-----------------------------------------------------------------------------
(* Properties of the inlining pass, under SpecInline *)

IsCss(asset) == asset.fileName.ext = ".css"

\* the positions of `considered` at which fileName was given a slot
SlottedAt(fileName) ==
    { i \in 1..Len(considered) :
        considered[i].asset.fileName = fileName /\ considered[i].slot # << >> }

\* C1: a client asset is given an inline slot exactly when its fileName ends
\* in '.css' and its source is strictly shorter than the threshold; an asset
\* of the threshold's size or longer is given none, and a path that only such
\* assets carry has no entry in stylesheet_lookup and no stylesheets module.
C1_InlineThreshold ==
    /\ \A i \in 1..Len(considered) :
         (considered[i].slot # << >>)
            <=> (IsCss(considered[i].asset)
                 /\ Len(considered[i].asset.source) <= threshold - 1)
    /\ \A i \in 1..Len(considered) :
         considered[i].slot # << >>
            => considered[i].asset.fileName \in DOMAIN stylesheet_lookup
    /\ \A i \in 1..Len(considered) :
         SlottedAt(considered[i].asset.fileName) = {}
            => /\ considered[i].asset.fileName \notin DOMAIN stylesheet_lookup
               /\ \A k \in DOMAIN stylesheet_files :
                    stylesheet_files[k].comment # considered[i].asset.fileName

\* sizes T-1, T and T+1 have all been considered: the first got a slot, the
\* other two, carried by another path, left that path out of the table
C1_Witness ==
    \E i, j, k \in 1..Len(considered) :
        /\ IsCss(considered[i].asset) /\ IsCss(considered[j].asset)
        /\ considered[j].asset.fileName = considered[k].asset.fileName
        /\ Len(considered[i].asset.source) = threshold - 1
        /\ Len(considered[j].asset.source) = threshold
        /\ Len(considered[k].asset.source) = threshold + 1
        /\ considered[i].slot # << >>
        /\ considered[j].slot = << >> /\ considered[k].slot = << >>
        /\ considered[j].asset.fileName \notin DOMAIN stylesheet_lookup

\* C2: once an asset path has been assigned a slot, every later consideration
\* of the same path leaves it mapped to that slot: each slot ever assigned to
\* a path is the slot the table holds for it.
C2_SlotStability ==
    \A i \in 1..Len(considered) :
        considered[i].slot # << >>
            => stylesheet_lookup[considered[i].asset.fileName] = considered[i].slot[1]

FirstSeen(fileName) == CHOOSE i \in SlottedAt(fileName) : \A j \in SlottedAt(fileName) : i <= j

LastSeen(fileName) == CHOOSE i \in SlottedAt(fileName) : \A j \in SlottedAt(fileName) : j <= i

\* C9: the slot table is consistent with the written modules: distinct paths
\* have distinct slots, the slots are 0..n-1 in first-seen order, and the
\* module of each path's slot holds that path's source.
C9_TableConsistent ==
    /\ \A f, g \in DOMAIN stylesheet_lookup :
         stylesheet_lookup[f] = stylesheet_lookup[g] => f = g
    /\ Range(stylesheet_lookup) = 0..(Cardinality(DOMAIN stylesheet_lookup) - 1)
    /\ \A f, g \in DOMAIN stylesheet_lookup :
         FirstSeen(f) < FirstSeen(g) => stylesheet_lookup[f] < stylesheet_lookup[g]
    /\ \A f \in DOMAIN stylesheet_lookup :
         /\ stylesheet_lookup[f] \in DOMAIN stylesheet_files
         /\ stylesheet_files[stylesheet_lookup[f]].comment = f
         /\ stylesheet_files[stylesheet_lookup[f]].default
               = considered[LastSeen(f)].asset.source

-----------------------------------------------------------------------------
(* Properties of get_methods, under SpecMethods *)

ClaimedMethods == { "GET", "POST", "PUT", "PATCH", "DELETE", "OPTIONS", "HEAD" }

\* the positions of names that hold a claimed method name
MethodPositions(names) == { i \in 1..Len(names) : names[i] \in ClaimedMethods }

\* the k-th smallest member of a set of positions
Nth(positions, k) ==
    CHOOSE i \in positions : Cardinality({ j \in positions : j <= i }) = k

\* list is the subsequence of names at the positions of the method names
IsMethodSubsequence(list, names) ==
    /\ Len(list) = Cardinality(MethodPositions(names))
    /\ \A k \in 1..Len(list) : list[k] = names[Nth(MethodPositions(names), k)]

\* C3: for every file in the table, the recorded list is the subsequence of
\* that file's export list whose names are HTTP method names, in export
\* order; [GET, POST, config, default] yields exactly [GET, POST].
C3_MethodFiltering ==
    \A f \in DOMAIN methods :
        /\ f \in DOMAIN exports_lookup
        /\ IsMethodSubsequence(methods[f], exports_lookup[f])
        /\ exports_lookup[f] = << "GET", "POST", "config", "default" >>
              => methods[f] = << "GET", "POST" >>

C3_Witness ==
    \E f, g \in DOMAIN methods :
        /\ exports_lookup[f] = << "GET", "POST", "config", "default" >>
        /\ methods[f] = << "GET", "POST" >>
        /\ exports_lookup[g] = << "default", "HEAD", "load", "GET" >>
        /\ methods[g] = << "HEAD", "GET" >>

\* the files the routes consumed so far name as endpoint or leaf server logic
FilesOf(rs) ==
    { rs[i].endpoint[1].file : i \in { j \in 1..Len(rs) : rs[j].endpoint # << >> } }
    \cup { rs[i].leaf[1].server[1] :
             i \in { j \in 1..Len(rs) : rs[j].leaf # << >> /\ rs[j].leaf[1].server # << >> } }

\* C8: a route file without an entry in the export lookup is left out of the
\* table and the routes after it are still processed; every endpoint or leaf
\* server file that has an entry is a key of the table.
C8_MissingOmitted ==
    /\ DOMAIN methods = FilesOf(routes) \cap DOMAIN exports_lookup
    /\ pc = "routes" /\ Len(routes) < MaxRoutes
          => \A route \in Routes : ENABLED AddRoute(route)

\* a route whose file has no export entry was passed over, and a later route's
\* file was recorded
C8_Witness ==
    \E i, j \in 1..Len(routes) :
        /\ i < j
        /\ routes[i].endpoint # << >>
        /\ routes[i].endpoint[1].file \notin DOMAIN exports_lookup
        /\ routes[i].endpoint[1].file \notin DOMAIN methods
        /\ routes[j].endpoint # << >>
        /\ routes[j].leaf # << >> /\ routes[j].leaf[1].server # << >>
        /\ routes[j].leaf[1].server[1] \in DOMAIN methods
        /\ sep = "\\"

-----------------------------------------------------------------------------
(* Properties of node emission, under SpecBuild *)

\* C4: every path in a node module's imports, stylesheets and fonts lists is
\* listed there once, whatever roles and import paths reach it.
C4_AssetListsDeduplicated ==
    \A i \in 1..Len(node_files) :
        /\ NoDuplicates(node_files[i].imports)
        /\ NoDuplicates(node_files[i].stylesheets)
        /\ NoDuplicates(node_files[i].fonts)

\* whether a graph holds an entry for the physical file of `file`
HasEntry(manifest, file) == \E k \in DOMAIN manifest : Realpath(k) = Realpath(file)

\* the files of a node that have no entry in a graph their role is looked up
\* in: the client and the server graph for the component and the client
\* logic, the server graph for the server logic
MissingFiles(node) ==
    { f \in Range(node.component) \cup Range(node.universal) :
        ~HasEntry(ClientManifest, f) \/ ~HasEntry(ServerManifest, f) }
    \cup { f \in Range(node.server) : ~HasEntry(ServerManifest, f) }

\* C5: when a file of a node has no entry in the artifact graph, build_server
\* aborts without a result and the error names the offending path.
C5_MissingEntryNamed ==
    attempted # << >> /\ MissingFiles(attempted[1]) # {}
        => /\ pc = "aborted"
           /\ result = << >>
           /\ error # << >>
           /\ error[1].path # << >>
           /\ error[1].path[1] \in MissingFiles(attempted[1])

\* the compiled file the server graph records for the physical file of `file`
CompiledFileOf(file) ==
    << ServerManifest[CHOOSE k \in DOMAIN ServerManifest : Realpath(k) = Realpath(file)].file >>

RefOf(file) == IF file = << >> THEN << >> ELSE CompiledFileOf(file[1])

\* C6: every lookup of a node file is made on its physical identity, for each
\* of the three roles: a node whose files all have an entry for their
\* physical file is emitted, with the compiled file of that entry per role.
C6_SymlinkIdentity ==
    attempted # << >> /\ MissingFiles(attempted[1]) = {}
        => /\ pc # "aborted"
           /\ error = << >>
           /\ node_files # << >>
           /\ node_files[Len(node_files)].component = RefOf(attempted[1].component)
           /\ node_files[Len(node_files)].universal = RefOf(attempted[1].universal)
           /\ node_files[Len(node_files)].server = RefOf(attempted[1].server)

\* the accumulated stylesheets of a node module that have an inline slot
Slotted(module) == { f \in Range(module.stylesheets) : f \in DOMAIN stylesheet_lookup }

\* the accessor entries of a node module, none when it exports no accessor
AccessorOf(module) ==
    IF module.inline_styles = << >> THEN {} ELSE Range(module.inline_styles[1])

\* C7: a node module exports inline_styles exactly when one of its stylesheets
\* has a slot; the accessor's keys are the stylesheets with a slot, each bound
\* to the import of its own slot's module; a stylesheet without a slot is in
\* the stylesheet list only.
C7_InlineStylesAccessor ==
    \A i \in 1..Len(node_files) :
        /\ (node_files[i].inline_styles # << >>) <=> (Slotted(node_files[i]) # {})
        /\ { e.key : e \in AccessorOf(node_files[i]) } = Slotted(node_files[i])
        /\ \A e \in AccessorOf(node_files[i]) :
             /\ e.name = << "stylesheet", stylesheet_lookup[e.key] >>
             /\ \E s \in Range(node_files[i].import_statements) :
                  /\ s.name = e.name
                  /\ s.from = << "stylesheets", stylesheet_lookup[e.key] >>
        /\ \A s \in Range(node_files[i].import_statements) :
             (Len(s.name) = 2 /\ s.name[1] = "stylesheet")
                => /\ s.from = << "stylesheets", s.name[2] >>
                   /\ \E e \in AccessorOf(node_files[i]) : e.name = s.name

\* a node module with one stylesheet in the accessor and another, without a
\* slot, in the stylesheet list only
C7_Witness ==
    \E i \in 1..Len(node_files) :
        /\ node_files[i].inline_styles # << >>
        /\ \E f \in Range(node_files[i].stylesheets) : f \notin DOMAIN stylesheet_lookup
        /\ \E e \in AccessorOf(node_files[i]) : stylesheet_lookup[e.key] = 0

-----------------------------------------------------------------------------
(* Properties of Server.init, under SpecServer *)

\* C10: on one Server instance get_hooks is invoked at most once and
\* options.hooks is assigned at most once, however the init calls interleave.
C10_HooksLoadedOnce ==
    /\ get_hooks_calls <= 1
    /\ hooks_assignments <= 1

====
